---- MODULE Spec2Model ----
(***************************************************************************)
(* Model of the S3 notification custom resource of fabularius.art:         *)
(*   backend/functions/ConfigureS3Notification/index.py      (handler and  *)
(*   the notification reconciler) and                                      *)
(*   backend/functions/ConfigureS3Notification/cfnresponse.py (send).      *)
(*                                                                         *)
(* A notification configuration document is a function from key names to   *)
(* lists; a trigger entry is a record.  An entry without an "Id" key is a  *)
(* record without an Id field.                                             *)
(*                                                                         *)
(* Spec      one invocation of handler(event, context), one step at a time *)
(* SpecPure  the reconciler's pure operations applied to a document        *)
(***************************************************************************)
EXTENDS Integers, Sequences, FiniteSets, TLC

VARIABLES
    event,                 \* the lifecycle event of the invocation
    bucketCfg0,            \* the bucket's stored document before the invocation
    bucketCfg,             \* the bucket's stored document
    pc,                    \* position in handler
    outcome,               \* "running", "returned", "raised" (exception left handler)
    bucket,                \* local: bucket
    function_arn,          \* local: function_arn
    physical_resource_id,  \* local: physical_resource_id
    branch,                \* "none", "delete", "upsert": branch taken at line 90
    curr,                  \* local: curr, as returned by get_current_config
    readRes,               \* "none", "ok", "err": outcome of the storage read
    writeRes,              \* "none", "ok", "err": outcome of the storage write
    exc,                   \* str(e) of the exception being handled, or NoExc
    raised,                \* TRUE once any exception was raised in the invocation
    calls,                 \* log of external calls: "get", "put", "send"
    putDocs,               \* documents passed to put_bucket_notification_configuration
    signals,               \* cfnresponse.send calls: [body, ok]
    hist,                  \* SpecPure: documents, hist[1] the starting one
    ops                    \* SpecPure: operations applied, ops[i] gives hist[i+1]

handlerVars == <<event, bucketCfg0, bucketCfg, pc, outcome, bucket, function_arn,
                 physical_resource_id, branch, curr, readRes, writeRes, exc,
                 raised, calls, putDocs, signals>>
pureVars == <<hist, ops>>
vars == <<event, bucketCfg0, bucketCfg, pc, outcome, bucket, function_arn,
          physical_resource_id, branch, curr, readRes, writeRes, exc,
          raised, calls, putDocs, signals, hist, ops>>

(***************************************************************************)
(* Bounds                                                                  *)
(***************************************************************************)
\* longest function-trigger list of a starting document in SpecPure
MaxLen == 3
\* most reconciler operations applied in a row in SpecPure
MaxOps == 3
\* longest function-trigger list stored on the bucket in Spec
MaxStored == 2

(***************************************************************************)
(* Names                                                                   *)
(***************************************************************************)
LambdaKey == "LambdaFunctionConfigurations"
QueueKey == "QueueConfigurations"
TopicKey == "TopicConfigurations"
MetaKey == "ResponseMetadata"

MediaId == "ProcessMediaUploadTrigger"
AvatarId == "ProcessAvatarUploadTrigger"

SUCCESS == "SUCCESS"
FAILED == "FAILED"

\* a key that the event does not carry
Absent == "<absent>"
\* a local that is not bound yet
Unbound == "<unbound>"
NoExc == "<none>"
\* context.log_stream_name
log_stream_name == "2026/01/01/[$LATEST]stream"

Arn1 == "arn:fn:1"
Arn2 == "arn:fn:2"
FunctionArns == {Arn1, Arn2}

(***************************************************************************)
(* Documents                                                               *)
(***************************************************************************)
EmptyDoc == [k \in {} |-> <<>>]

\* cfg.get(k, [])
Get(cfg, k) == IF k \in DOMAIN cfg THEN cfg[k] ELSE <<>>

\* cfg[k] = v
Set(cfg, k, v) == [x \in DOMAIN cfg \cup {k} |-> IF x = k THEN v ELSE cfg[x]]

\* del cfg[k]  /  cfg.pop(k, None)
Del(cfg, k) == [x \in DOMAIN cfg \ {k} |-> cfg[x]]

\* conf.get("Id")
IdOf(conf) == IF "Id" \in DOMAIN conf THEN conf.Id ELSE Absent

PrefixFilter(p) == [Key |-> [FilterRules |-> <<[Name |-> "prefix", Value |-> p]>>]]

(***************************************************************************)
(* index.py: the notification reconciler                                   *)
(***************************************************************************)
TRIGGERS == << [Id |-> MediaId, Prefix |-> "albums/"],
               [Id |-> AvatarId, Prefix |-> "users/"] >>

TRIGGER_IDS == {TRIGGERS[i].Id : i \in DOMAIN TRIGGERS}

build_our_triggers_Reversed(arn) ==
    [i \in DOMAIN TRIGGERS |->
        LET trigger == TRIGGERS[Len(TRIGGERS) + 1 - i] IN
        [Id |-> trigger.Id,
         LambdaFunctionArn |-> arn,
         Events |-> <<"s3:ObjectCreated:*">>,
         Filter |-> PrefixFilter(trigger.Prefix)]]

build_our_triggers(arn) ==
    [i \in DOMAIN TRIGGERS |->
        [Id |-> TRIGGERS[i].Id,
         LambdaFunctionArn |-> arn,
         Events |-> <<"s3:ObjectCreated:*">>,
         Filter |-> PrefixFilter(TRIGGERS[i].Prefix)]]

\* one iteration of the loop of clean_empty_keys
CleanKey(cfg, k) ==
    IF k \in DOMAIN cfg /\ cfg[k] = <<>> THEN Del(cfg, k) ELSE cfg

clean_empty_keys_LambdaOnly(cfg) == CleanKey(cfg, LambdaKey)

clean_empty_keys(cfg) ==
    CleanKey(CleanKey(CleanKey(cfg, LambdaKey), QueueKey), TopicKey)

\* [conf for conf in lst if conf.get("Id") not in TRIGGER_IDS]
RECURSIVE WithoutOurs(_)
WithoutOurs(lst) ==
    IF lst = <<>> THEN <<>>
    ELSE IF IdOf(Head(lst)) \notin TRIGGER_IDS
         THEN <<Head(lst)>> \o WithoutOurs(Tail(lst))
         ELSE WithoutOurs(Tail(lst))

remove_our_triggers_FirstIdOnly(cfg) ==
    Set(cfg, LambdaKey,
        SelectSeq(Get(cfg, LambdaKey), LAMBDA conf : IdOf(conf) # TRIGGERS[1].Id))

remove_our_triggers(cfg) ==
    Set(cfg, LambdaKey, WithoutOurs(Get(cfg, LambdaKey)))

upsert_our_triggers_AppendOnly(cfg, arn) ==
    Set(cfg, LambdaKey, Get(cfg, LambdaKey) \o build_our_triggers(arn))

upsert_our_triggers(cfg, arn) ==
    LET orig == Get(cfg, LambdaKey)
        new_ours == build_our_triggers(arn)
        without_ours == WithoutOurs(orig)
    IN  Set(cfg, LambdaKey, without_ours \o new_ours)

\* what s3.get_bucket_notification_configuration returns for a stored document
S3Response(stored) == Set(stored, MetaKey, [HTTPStatusCode |-> 200])

\* get_current_config; ok = FALSE when the storage read raises
get_current_config(ok, stored) ==
    IF ok
    THEN LET popped == Del(S3Response(stored), MetaKey) IN
         IF LambdaKey \notin DOMAIN popped
         THEN Set(popped, LambdaKey, <<>>)
         ELSE popped
    ELSE [x \in {LambdaKey} |-> <<>>]

\* to_set = curr if curr else {}
to_set(cfg) == IF DOMAIN cfg # {} THEN cfg ELSE EmptyDoc

(***************************************************************************)
(* cfnresponse.py: send                                                    *)
(***************************************************************************)
ResponseBody_NoPhysicalId(status, responseData, physicalResourceId) ==
    [Status |-> status,
     Reason |-> "See the details in CloudWatch Log Stream: " \o log_stream_name,
     PhysicalResourceId |-> log_stream_name,
     StackId |-> event.StackId,
     RequestId |-> event.RequestId,
     LogicalResourceId |-> event.LogicalResourceId,
     NoEcho |-> FALSE,
     Data |-> responseData]

\* responseBody of send; "x or y" takes y when x is the empty string
ResponseBody(status, responseData, physicalResourceId) ==
    [Status |-> status,
     Reason |-> "See the details in CloudWatch Log Stream: " \o log_stream_name,
     PhysicalResourceId |-> IF physicalResourceId # "" THEN physicalResourceId
                            ELSE log_stream_name,
     StackId |-> event.StackId,
     RequestId |-> event.RequestId,
     LogicalResourceId |-> event.LogicalResourceId,
     NoEcho |-> FALSE,
     Data |-> responseData]

(***************************************************************************)
(* Input documents                                                         *)
(***************************************************************************)
\* an owned entry as build_our_triggers(Arn1) makes it
MediaEntry ==
    [Id |-> MediaId, LambdaFunctionArn |-> Arn1,
     Events |-> <<"s3:ObjectCreated:*">>, Filter |-> PrefixFilter("albums/")]
\* an owned identifier with another target, event and filter
StaleMediaEntry ==
    [Id |-> MediaId, LambdaFunctionArn |-> "arn:fn:old",
     Events |-> <<"s3:ObjectRemoved:*">>, Filter |-> PrefixFilter("old/")]
AvatarEntry ==
    [Id |-> AvatarId, LambdaFunctionArn |-> Arn2,
     Events |-> <<"s3:ObjectCreated:*">>, Filter |-> PrefixFilter("users/")]
\* entries of other systems, one of them without an identifier
OtherEntry ==
    [Id |-> "ThumbnailTrigger", LambdaFunctionArn |-> "arn:fn:other",
     Events |-> <<"s3:ObjectCreated:*">>, Filter |-> PrefixFilter("albums/")]
NoIdEntry ==
    [LambdaFunctionArn |-> "arn:fn:other", Events |-> <<"s3:ObjectRemoved:*">>]

Entries == {MediaEntry, StaleMediaEntry, AvatarEntry, OtherEntry, NoIdEntry}

QueueEntry == [Id |-> "AuditQueue", QueueArn |-> "arn:sqs:audit",
               Events |-> <<"s3:ObjectCreated:*">>]
TopicEntry == [Id |-> "AuditTopic", TopicArn |-> "arn:sns:audit",
               Events |-> <<"s3:ObjectRemoved:*">>]

ListsUpTo(S, n) == UNION {[1..k -> S] : k \in 0..n}

\* a key is given as <<>> (not in the document) or <<list>>
MkDoc(ol, oq, ot) ==
    LET keys == (IF ol # <<>> THEN {LambdaKey} ELSE {})
                \cup (IF oq # <<>> THEN {QueueKey} ELSE {})
                \cup (IF ot # <<>> THEN {TopicKey} ELSE {})
    IN  [k \in keys |-> IF k = LambdaKey THEN ol[1]
                        ELSE IF k = QueueKey THEN oq[1] ELSE ot[1]]

Opt(S) == {<<>>} \cup {<<x>> : x \in S}

DocsUpTo(n) ==
    {MkDoc(ol, oq, ot) : ol \in Opt(ListsUpTo(Entries, n)),
                         oq \in Opt({<<>>, <<QueueEntry>>}),
                         ot \in Opt({<<>>, <<TopicEntry>>})}

(***************************************************************************)
(* SpecPure: the reconciler's operations applied to a document             *)
(***************************************************************************)
HandlerIdle ==
    /\ event = [RequestType |-> Absent, BucketName |-> Absent, FunctionArn |-> Absent,
                StackId |-> "stack", RequestId |-> "req", LogicalResourceId |-> "res"]
    /\ bucketCfg0 = EmptyDoc
    /\ bucketCfg = EmptyDoc
    /\ pc = "idle"
    /\ outcome = "running"
    /\ bucket = Unbound
    /\ function_arn = Unbound
    /\ physical_resource_id = Unbound
    /\ branch = "none"
    /\ curr = EmptyDoc
    /\ readRes = "none"
    /\ writeRes = "none"
    /\ exc = NoExc
    /\ raised = FALSE
    /\ calls = <<>>
    /\ putDocs = <<>>
    /\ signals = <<>>

InitPure ==
    /\ HandlerIdle
    /\ \E d \in DocsUpTo(MaxLen) : hist = <<d>>
    /\ ops = <<>>

Last(s) == s[Len(s)]

ApplyUpsert ==
    /\ Len(ops) < MaxOps
    /\ \E arn \in FunctionArns :
        /\ hist' = Append(hist, upsert_our_triggers(Last(hist), arn))
        /\ ops' = Append(ops, [op |-> "upsert", arn |-> arn])
    /\ UNCHANGED handlerVars

ApplyRemove ==
    /\ Len(ops) < MaxOps
    /\ hist' = Append(hist, remove_our_triggers(Last(hist)))
    /\ ops' = Append(ops, [op |-> "remove", arn |-> Absent])
    /\ UNCHANGED handlerVars

ApplyClean ==
    /\ Len(ops) < MaxOps
    /\ hist' = Append(hist, clean_empty_keys(Last(hist)))
    /\ ops' = Append(ops, [op |-> "clean", arn |-> Absent])
    /\ UNCHANGED handlerVars

NextPure == ApplyUpsert \/ ApplyRemove \/ ApplyClean

SpecPure == InitPure /\ [][NextPure]_vars

(***************************************************************************)
(* Spec: one invocation of handler(event, context)                         *)
(*                                                                         *)
(* The orchestrator fills the callback envelope (ResponseURL, StackId,     *)
(* RequestId, LogicalResourceId) of every event; RequestType and the       *)
(* resource properties BucketName and FunctionArn may be missing.          *)
(* The storage service rejects an empty bucket name, so both storage calls *)
(* raise for it; for any other bucket each call returns or raises.         *)
(***************************************************************************)
Events ==
    [RequestType : {"Create", "Update", "Delete", Absent},
     BucketName : {Absent, "", "media-bucket"},
     FunctionArn : {Absent} \cup FunctionArns,
     ResponseURL : {"https://cfn.example/response"},
     StackId : {"stack"},
     RequestId : {"req"},
     LogicalResourceId : {"res"}]

PureIdle ==
    /\ hist = <<EmptyDoc>>
    /\ ops = <<>>

Init ==
    /\ event \in Events
    /\ bucketCfg0 \in DocsUpTo(MaxStored)
    /\ bucketCfg = bucketCfg0
    /\ pc = "extract"
    /\ outcome = "running"
    /\ bucket = Unbound
    /\ function_arn = Unbound
    /\ physical_resource_id = Unbound
    /\ branch = "none"
    /\ curr = EmptyDoc
    /\ readRes = "none"
    /\ writeRes = "none"
    /\ exc = NoExc
    /\ raised = FALSE
    /\ calls = <<>>
    /\ putDocs = <<>>
    /\ signals = <<>>
    /\ PureIdle

\* outcomes of a storage call on bucket b: TRUE returns, FALSE raises
StorageOutcomes(b) == IF b = "" THEN {FALSE} ELSE {TRUE, FALSE}

GetErrorText == "ClientError: GetBucketNotificationConfiguration failed"
PutErrorText == "ClientError: PutBucketNotificationConfiguration failed"
KeyErrorText(k) == "'" \o k \o "'"

\* cfnresponse.send: one PUT of the response body, which succeeds or fails;
\* a failed PUT is swallowed and only changes the return value
send(responseStatus, responseData, physicalResourceId) ==
    \E delivered \in BOOLEAN :
        /\ signals' = Append(signals,
              [body |-> ResponseBody(responseStatus, responseData, physicalResourceId),
               ok |-> delivered])
        /\ calls' = Append(calls, "send")

\* lines 84-87, before the try block
ExtractProperties ==
    /\ pc = "extract"
    /\ IF event.BucketName = Absent \/ event.FunctionArn = Absent
       THEN /\ raised' = TRUE
            /\ exc' = IF event.BucketName = Absent THEN KeyErrorText("BucketName")
                      ELSE KeyErrorText("FunctionArn")
            /\ outcome' = "raised"
            /\ pc' = "done"
            /\ UNCHANGED <<bucket, function_arn, physical_resource_id>>
       ELSE /\ bucket' = event.BucketName
            /\ function_arn' = event.FunctionArn
            /\ physical_resource_id' = event.BucketName
            /\ pc' = "dispatch"
            /\ UNCHANGED <<raised, exc, outcome>>
    /\ UNCHANGED <<event, bucketCfg0, bucketCfg, branch, curr, readRes, writeRes,
                   calls, putDocs, signals, hist, ops>>

\* lines 89-91 and 118: event["RequestType"] inside the outer try
Dispatch ==
    /\ pc = "dispatch"
    /\ IF event.RequestType = Absent
       THEN /\ raised' = TRUE
            /\ exc' = KeyErrorText("RequestType")
            /\ pc' = "outer_except"
            /\ UNCHANGED branch
       ELSE /\ branch' = IF event.RequestType = "Delete" THEN "delete" ELSE "upsert"
            /\ pc' = IF event.RequestType = "Delete" THEN "delete_get" ELSE "upsert_get"
            /\ UNCHANGED <<raised, exc>>
    /\ UNCHANGED <<event, bucketCfg0, bucketCfg, outcome, bucket, function_arn,
                   physical_resource_id, curr, readRes, writeRes, calls, putDocs,
                   signals, hist, ops>>

DeleteGet_Naive ==
    /\ pc = "delete_get"
    /\ curr' = [x \in {LambdaKey} |-> <<>>]
    /\ pc' = "delete_put"
    /\ UNCHANGED <<event, bucketCfg0, bucketCfg, outcome, bucket, function_arn,
                   physical_resource_id, branch, readRes, writeRes, exc, raised,
                   calls, putDocs, signals, hist, ops>>

\* line 93
DeleteGet ==
    /\ pc = "delete_get"
    /\ \E ok \in StorageOutcomes(bucket) :
        /\ curr' = get_current_config(ok, bucketCfg)
        /\ readRes' = IF ok THEN "ok" ELSE "err"
    /\ calls' = Append(calls, "get")
    /\ pc' = "delete_put"
    /\ UNCHANGED <<event, bucketCfg0, bucketCfg, outcome, bucket, function_arn,
                   physical_resource_id, branch, writeRes, exc, raised, putDocs,
                   signals, hist, ops>>

\* lines 94-101
DeletePut ==
    /\ pc = "delete_put"
    /\ LET cleaned == clean_empty_keys(remove_our_triggers(curr))
           doc == to_set(cleaned)
       IN  /\ curr' = cleaned
           /\ putDocs' = Append(putDocs, doc)
           /\ calls' = Append(calls, "put")
           /\ \E ok \in StorageOutcomes(bucket) :
                IF ok
                THEN /\ bucketCfg' = doc
                     /\ writeRes' = "ok"
                     /\ pc' = "delete_send"
                     /\ UNCHANGED <<exc, raised>>
                ELSE /\ writeRes' = "err"
                     /\ exc' = PutErrorText
                     /\ raised' = TRUE
                     /\ pc' = "delete_except"
                     /\ UNCHANGED bucketCfg
    /\ UNCHANGED <<event, bucketCfg0, outcome, bucket, function_arn,
                   physical_resource_id, branch, readRes, signals, hist, ops>>

\* lines 102-105 and 115
DeleteSend ==
    /\ pc = "delete_send"
    /\ send(SUCCESS, EmptyDoc, physical_resource_id)
    /\ pc' = "done"
    /\ outcome' = "returned"
    /\ UNCHANGED <<event, bucketCfg0, bucketCfg, bucket, function_arn,
                   physical_resource_id, branch, curr, readRes, writeRes, exc,
                   raised, putDocs, hist, ops>>

\* lines 106-115
DeleteExcept ==
    /\ pc = "delete_except"
    /\ send(FAILED, [Error |-> exc], physical_resource_id)
    /\ pc' = "done"
    /\ outcome' = "returned"
    /\ UNCHANGED <<event, bucketCfg0, bucketCfg, bucket, function_arn,
                   physical_resource_id, branch, curr, readRes, writeRes, exc,
                   raised, putDocs, hist, ops>>

UpsertGet_AbortOnReadError ==
    /\ pc = "upsert_get"
    /\ \E ok \in StorageOutcomes(bucket) :
        IF ok
        THEN /\ curr' = get_current_config(TRUE, bucketCfg)
             /\ readRes' = "ok"
             /\ pc' = "upsert_put"
             /\ UNCHANGED <<exc, raised>>
        ELSE /\ readRes' = "err"
             /\ exc' = GetErrorText
             /\ raised' = TRUE
             /\ pc' = "upsert_except"
             /\ UNCHANGED curr
    /\ calls' = Append(calls, "get")
    /\ UNCHANGED <<event, bucketCfg0, bucketCfg, outcome, bucket, function_arn,
                   physical_resource_id, branch, writeRes, putDocs,
                   signals, hist, ops>>

\* line 120
UpsertGet ==
    /\ pc = "upsert_get"
    /\ \E ok \in StorageOutcomes(bucket) :
        /\ curr' = get_current_config(ok, bucketCfg)
        /\ readRes' = IF ok THEN "ok" ELSE "err"
    /\ calls' = Append(calls, "get")
    /\ pc' = "upsert_put"
    /\ UNCHANGED <<event, bucketCfg0, bucketCfg, outcome, bucket, function_arn,
                   physical_resource_id, branch, writeRes, exc, raised, putDocs,
                   signals, hist, ops>>

\* lines 121-126
UpsertPut ==
    /\ pc = "upsert_put"
    /\ LET doc == clean_empty_keys(upsert_our_triggers(curr, function_arn))
       IN  /\ curr' = doc
           /\ putDocs' = Append(putDocs, doc)
           /\ calls' = Append(calls, "put")
           /\ \E ok \in StorageOutcomes(bucket) :
                IF ok
                THEN /\ bucketCfg' = doc
                     /\ writeRes' = "ok"
                     /\ pc' = "upsert_send"
                     /\ UNCHANGED <<exc, raised>>
                ELSE /\ writeRes' = "err"
                     /\ exc' = PutErrorText
                     /\ raised' = TRUE
                     /\ pc' = "upsert_except"
                     /\ UNCHANGED bucketCfg
    /\ UNCHANGED <<event, bucketCfg0, outcome, bucket, function_arn,
                   physical_resource_id, branch, readRes, signals, hist, ops>>

\* lines 127-130
UpsertSend ==
    /\ pc = "upsert_send"
    /\ send(SUCCESS, EmptyDoc, physical_resource_id)
    /\ pc' = "done"
    /\ outcome' = "returned"
    /\ UNCHANGED <<event, bucketCfg0, bucketCfg, bucket, function_arn,
                   physical_resource_id, branch, curr, readRes, writeRes, exc,
                   raised, putDocs, hist, ops>>

\* lines 131-139
UpsertExcept ==
    /\ pc = "upsert_except"
    /\ send(FAILED, [Error |-> exc], physical_resource_id)
    /\ pc' = "done"
    /\ outcome' = "returned"
    /\ UNCHANGED <<event, bucketCfg0, bucketCfg, bucket, function_arn,
                   physical_resource_id, branch, curr, readRes, writeRes, exc,
                   raised, putDocs, hist, ops>>

\* lines 141-146
OuterExcept ==
    /\ pc = "outer_except"
    /\ send(FAILED, [Error |-> exc], physical_resource_id)
    /\ pc' = "done"
    /\ outcome' = "returned"
    /\ UNCHANGED <<event, bucketCfg0, bucketCfg, bucket, function_arn,
                   physical_resource_id, branch, curr, readRes, writeRes, exc,
                   raised, putDocs, hist, ops>>

Next ==
    \/ ExtractProperties
    \/ Dispatch
    \/ DeleteGet
    \/ DeletePut
    \/ DeleteSend
    \/ DeleteExcept
    \/ UpsertGet
    \/ UpsertPut
    \/ UpsertSend
    \/ UpsertExcept
    \/ OuterExcept

Spec == Init /\ [][Next]_vars

(***************************************************************************)
(* Properties                                                              *)
(***************************************************************************)
OwnedIds == {"ProcessMediaUploadTrigger", "ProcessAvatarUploadTrigger"}

IsOwned(conf) == "Id" \in DOMAIN conf /\ conf.Id \in OwnedIds

\* the entries of lst that bear no owned identifier, in their order
NonOwned(lst) == SelectSeq(lst, LAMBDA conf : ~IsOwned(conf))

OwnedPositions(lst) == {i \in 1..Len(lst) : IsOwned(lst[i])}

PrefixOf(conf) == conf.Filter.Key.FilterRules[1].Value

IsOwnedEntry(conf, id, prefix, arn) ==
    /\ IsOwned(conf)
    /\ conf.Id = id
    /\ conf.LambdaFunctionArn = arn
    /\ Len(conf.Filter.Key.FilterRules) = 1
    /\ conf.Filter.Key.FilterRules[1].Name = "prefix"
    /\ PrefixOf(conf) = prefix

\* lst ends with the albums/ entry followed by the users/ entry, both for
\* arn, and holds no other owned entry
EndsWithOwnedPair(lst, arn) ==
    LET n == Len(lst) IN
    /\ n >= 2
    /\ OwnedPositions(lst) = {n - 1, n}
    /\ IsOwnedEntry(lst[n - 1], "ProcessMediaUploadTrigger", "albums/", arn)
    /\ IsOwnedEntry(lst[n], "ProcessAvatarUploadTrigger", "users/", arn)

Finished == pc = "done"

Statuses == {signals[i].body.Status : i \in DOMAIN signals}

\* C1: every invocation with request type Create, Update or Delete ends
\* having called cfnresponse.send exactly once.
C1_ExactlyOneSignal ==
    (Finished /\ event.RequestType \in {"Create", "Update", "Delete"})
        => Len(signals) = 1

\* C2: an invocation in which an exception was raised, for any event, the
\* malformed ones included, ends with a FAILED signal having been sent.
C2_ExceptionSignalsFailed ==
    (Finished /\ raised) => FAILED \in Statuses

\* C3: after the storage write, whatever the outcome of the storage read,
\* the function-trigger entries of other systems on the bucket are the ones
\* that were there before the invocation, in the same order, and non-empty
\* queue and topic lists are stored unmodified.
C3_OtherEntriesUntouched ==
    writeRes = "ok" =>
        /\ NonOwned(Get(bucketCfg, LambdaKey)) = NonOwned(Get(bucketCfg0, LambdaKey))
        /\ \A k \in {QueueKey, TopicKey} :
              Get(bucketCfg0, k) # <<>> => Get(bucketCfg, k) = Get(bucketCfg0, k)

\* the outcome half of C4, for an invocation that reached a branch
SignalsWriteOutcome ==
    /\ writeRes = "ok" =>
          /\ Len(signals) = 1
          /\ signals[1].body.Status = SUCCESS
    /\ writeRes = "err" =>
          /\ Len(signals) = 1
          /\ signals[1].body.Status = FAILED
          /\ signals[1].body.Data = [Error |-> PutErrorText]
          /\ bucketCfg = bucketCfg0
    /\ writeRes # "ok" => SUCCESS \notin Statuses

PhysicalIdIsBucket ==
    \A i \in DOMAIN signals : signals[i].body.PhysicalResourceId = event.BucketName

\* C4 as stated: for each request type and ANY bucket identifier, a write
\* that returns is signalled SUCCESS, a write that raises is signalled FAILED
\* with the stringified error, the PhysicalResourceId sent is the bucket
\* identifier, and SUCCESS is never sent for a failed write.
C4_AnyBucket ==
    (Finished /\ branch # "none") => (SignalsWriteOutcome /\ PhysicalIdIsBucket)

\* C4 amended: the same, for each request type and any NON-EMPTY bucket
\* identifier (send replaces an empty physical id by the log stream name).
C4_NonEmptyBucket ==
    (Finished /\ branch # "none" /\ event.BucketName # "")
        => (SignalsWriteOutcome /\ PhysicalIdIsBucket)

C4_Witness ==
    /\ Finished
    /\ branch = "delete"
    /\ event.BucketName = "media-bucket"
    /\ writeRes = "err"
    /\ Len(signals) = 1
    /\ signals[1].body.Status = FAILED
    /\ signals[1].body.PhysicalResourceId = "media-bucket"

\* C5: when the storage read raises, the handler goes on with an empty
\* function-trigger list, on the Create/Update and on the Delete branch:
\* it performs the storage write, with the document computed from the empty
\* list, and signals the outcome of that write.
C5_ReadFailureProceeds ==
    /\ (readRes = "err" /\ pc \in {"delete_put", "upsert_put"})
          => curr = [x \in {"LambdaFunctionConfigurations"} |-> <<>>]
    /\ (readRes = "err" /\ Finished) =>
          /\ Len(putDocs) = 1
          /\ branch = "delete" => putDocs[1] = EmptyDoc
          /\ branch = "upsert" =>
                /\ DOMAIN putDocs[1] = {"LambdaFunctionConfigurations"}
                /\ Len(putDocs[1][LambdaKey]) = 2
                /\ EndsWithOwnedPair(putDocs[1][LambdaKey], event.FunctionArn)
          /\ Len(signals) = 1
          /\ signals[1].body.Status = IF writeRes = "ok" THEN SUCCESS ELSE FAILED

C5_Witness ==
    /\ Finished
    /\ branch = "upsert"
    /\ readRes = "err"
    /\ writeRes = "ok"
    /\ Len(putDocs) = 1
    /\ signals[1].body.Status = SUCCESS

\* C6: upsert with f2 after upsert with f1 leaves exactly two owned entries,
\* both for f2, at the end of the list: ProcessMediaUploadTrigger with prefix
\* albums/, then ProcessAvatarUploadTrigger with prefix users/.
C6_UpsertTwice ==
    \A i \in 1..(Len(ops) - 1) :
        (ops[i].op = "upsert" /\ ops[i + 1].op = "upsert")
            => EndsWithOwnedPair(Get(hist[i + 2], LambdaKey), ops[i + 1].arn)

C6_Witness ==
    /\ Len(ops) = 2
    /\ ops[1] = [op |-> "upsert", arn |-> Arn1]
    /\ ops[2] = [op |-> "upsert", arn |-> Arn2]
    /\ Get(hist[1], LambdaKey) = <<StaleMediaEntry, OtherEntry, MediaEntry>>
    /\ Len(Get(hist[3], LambdaKey)) = 3
    /\ hist[3][LambdaKey][1] = OtherEntry

\* C7: upsert twice with the same function reference gives the same
\* function-trigger list, order included, as upsert once.
C7_UpsertIdempotent ==
    \A i \in 1..(Len(ops) - 1) :
        (ops[i].op = "upsert" /\ ops[i + 1] = ops[i])
            => Get(hist[i + 2], LambdaKey) = Get(hist[i + 1], LambdaKey)

C7_Witness ==
    /\ Len(ops) = 2
    /\ ops[1] = [op |-> "upsert", arn |-> Arn2]
    /\ ops[2] = ops[1]
    /\ Get(hist[1], LambdaKey) = <<AvatarEntry, NoIdEntry, AvatarEntry>>
    /\ Get(hist[2], LambdaKey) # Get(hist[1], LambdaKey)
    /\ hist[3] = hist[2]

\* C8: removeOwned after upsert gives the original function-trigger list
\* without its owned entries, the other entries unchanged and in order;
\* removeOwned once more changes nothing.
C8_RemoveAfterUpsert ==
    \A i \in 1..(Len(ops) - 1) :
        (ops[i].op = "upsert" /\ ops[i + 1].op = "remove") =>
            /\ Get(hist[i + 2], LambdaKey) = NonOwned(Get(hist[i], LambdaKey))
            /\ (i + 2 <= Len(ops) /\ ops[i + 2].op = "remove")
                  => Get(hist[i + 3], LambdaKey) = Get(hist[i + 2], LambdaKey)

C8_Witness ==
    /\ Len(ops) = 3
    /\ ops[1].op = "upsert"
    /\ ops[2].op = "remove"
    /\ ops[3].op = "remove"
    /\ Get(hist[1], LambdaKey) = <<MediaEntry, NoIdEntry, AvatarEntry>>
    /\ Get(hist[4], LambdaKey) = <<NoIdEntry>>

ConfigKinds ==
    {"LambdaFunctionConfigurations", "QueueConfigurations", "TopicConfigurations"}

\* C9: no document passed to the storage write holds a configuration-kind
\* key with an empty list, and when every key is removed (nothing but owned
\* entries and empty lists to start from, on Delete) the document written is
\* the empty object.
C9_NoEmptyListWritten ==
    /\ \A i \in DOMAIN putDocs : \A k \in ConfigKinds :
          k \in DOMAIN putDocs[i] => putDocs[i][k] # <<>>
    /\ (/\ putDocs # <<>>
        /\ branch = "delete"
        /\ \/ readRes = "err"
           \/ /\ NonOwned(Get(bucketCfg0, LambdaKey)) = <<>>
              /\ Get(bucketCfg0, QueueKey) = <<>>
              /\ Get(bucketCfg0, TopicKey) = <<>>)
          => putDocs[1] = EmptyDoc

C9_Witness ==
    /\ Finished
    /\ branch = "delete"
    /\ readRes = "ok"
    /\ bucketCfg0 = MkDoc(<< <<MediaEntry>> >>, << <<>> >>, <<>>)
    /\ putDocs = <<EmptyDoc>>

\* C10: on the Create/Update and on the Delete branch the storage read
\* precedes the storage write and the write precedes the signal: no write
\* before the read returned or raised, no signal before the write was
\* attempted, and at most one write.
C10_Ordering ==
    branch # "none" =>
        /\ \A i \in DOMAIN calls :
              /\ calls[i] = "put" =>
                    /\ \E j \in 1..(i - 1) : calls[j] = "get"
                    /\ readRes # "none"
              /\ calls[i] = "send" =>
                    /\ \E j \in 1..(i - 1) : calls[j] = "put"
                    /\ writeRes # "none"
        /\ Cardinality({i \in DOMAIN calls : calls[i] = "put"}) <= 1
        /\ Len(putDocs) <= 1

C10_Witness ==
    /\ Finished
    /\ branch = "upsert"
    /\ calls = <<"get", "put", "send">>

====
